---- MODULE Spec2Model ----
(***************************************************************************)
(* DockerHound (src/src/dockerhound/__init__.py): the orchestration of the *)
(* Postgres, Neo4j and BloodHound containers as a state machine.           *)
(*                                                                         *)
(* The Python process is a control stack of frames.  The bottom frame is   *)
(* the main flow (Config.create, then pull_images or run, then the cleanup *)
(* of run's except block and of __exit__).  Every SIGINT/SIGTERM pushes a  *)
(* frame for _signal_handler on top of whatever was running; a frame that  *)
(* ends by an exception hands it to the frame below, at the statement the  *)
(* frame below was interrupted in.                                         *)
(*                                                                         *)
(* Text is a tuple of one-character strings, so that "pattern in logs" is  *)
(* a real substring test.                                                  *)
(***************************************************************************)
EXTENDS Integers, Sequences, FiniteSets, TLC

\* ------------------------------------------------------------------ bounds
\* lines a container writes to its log during one run
MaxLogLen == 2
\* SIGINT/SIGTERM deliveries during one run
MaxSignals == 2
\* seconds the clock may advance during one run
MaxClock == 2

\* ------------------------------------------------------------- names (37-59)
NETWORK_NAME == "DockerHound-CE-network"
BLOODHOUND_CONTAINER == "DockerHound-CE_BH"
NEO4J_CONTAINER == "DockerHound-CE_Neo4j"
POSTGRES_CONTAINER == "DockerHound-CE_PSQL"
BLOODHOUND_IMAGE == "docker.io/specterops/bloodhound:latest"
NEO4J_IMAGE == "docker.io/library/neo4j:4.4"
POSTGRES_IMAGE == "docker.io/library/postgres:16"
DEFAULT_PORT == 8181

Containers == {POSTGRES_CONTAINER, NEO4J_CONTAINER, BLOODHOUND_CONTAINER}

\* ------------------------------------------------------------------- text
NL == <<"\n">>

PostgresReadyPattern ==
    <<"d","a","t","a","b","a","s","e"," ","s","y","s","t","e","m"," ","i","s"," ","r","e","a",
      "d","y"," ","t","o"," ","a","c","c","e","p","t"," ","c","o","n","n","e","c","t","i","o",
      "n","s">>
Neo4jReadyPattern ==
    <<"R","e","m","o","t","e"," ","i","n","t","e","r","f","a","c","e"," ","a","v","a","i","l",
      "a","b","l","e"," ","a","t"," ","h","t","t","p",":","/","/","l","o","c","a","l","h","o",
      "s","t",":","7","4","7","4","/">>
BloodhoundReadyPattern ==
    <<"S","e","r","v","e","r"," ","s","t","a","r","t","e","d"," ","s","u","c","c","e","s","s",
      "f","u","l","l","y">>
PgErrFatal == <<"F","A","T","A","L",":">>
PgErrError == <<"E","R","R","O","R",":">>
PgErrCould == <<"c","o","u","l","d"," ","n","o","t">>
NeoErr == <<"E","r","r","o","r">>
BhErrLevelError == <<"\"","l","e","v","e","l","\"",":","\"","e","r","r","o","r","\"">>
BhErrLevelFatal == <<"\"","l","e","v","e","l","\"",":","\"","f","a","t","a","l","\"">>
BhErrError == <<"E","r","r","o","r",":"," ">>

\* get_ready_log_pattern of the manager of container c
get_ready_log_pattern(c) ==
    CASE c = POSTGRES_CONTAINER -> PostgresReadyPattern
      [] c = NEO4J_CONTAINER -> Neo4jReadyPattern
      [] c = BLOODHOUND_CONTAINER -> BloodhoundReadyPattern

\* error patterns with Postgres' "could not" forgotten
ErrorPatternsWithoutCouldNot(c) ==
    CASE c = POSTGRES_CONTAINER -> {PgErrFatal, PgErrError}
      [] c = NEO4J_CONTAINER -> {NeoErr}
      [] c = BLOODHOUND_CONTAINER -> {BhErrLevelError, BhErrLevelFatal, BhErrError}
\* get_error_log_patterns of the manager of container c
get_error_log_patterns(c) ==
    CASE c = POSTGRES_CONTAINER -> {PgErrFatal, PgErrError, PgErrCould}
      [] c = NEO4J_CONTAINER -> {NeoErr}
      [] c = BLOODHOUND_CONTAINER -> {BhErrLevelError, BhErrLevelFatal, BhErrError}

\* Python's "pattern in logs" on str: pattern occurs as a contiguous slice
In(pattern, text) ==
    \E i \in 1..(Len(text) - Len(pattern) + 1) :
        /\ text[i] = pattern[1]
        /\ SubSeq(text, i, i + Len(pattern) - 1) = pattern

\* lines a container may write, each without its newline
LineStarting == <<"s","t","a","r","t","i","n","g">>
LineBhError == <<"{">> \o BhErrLevelError \o <<"}">>
LogLines(c) ==
    CASE c = POSTGRES_CONTAINER -> {PostgresReadyPattern, PgErrFatal}
      [] c = NEO4J_CONTAINER -> {LineStarting, Neo4jReadyPattern, NeoErr}
      [] c = BLOODHOUND_CONTAINER -> {LineStarting, BloodhoundReadyPattern, LineBhError}

\* the logs a later fetch may return after a fetch returned lines: the
\* container has written zero or more further lines since
Extensions(lines, c) ==
    {lines \o more : more \in UNION {[1..k -> LogLines(c)] : k \in 0..(MaxLogLen - Len(lines))}}

\* result.stdout of "logs --since": the lines, each ended by a newline
RECURSIVE Stdout(_)
Stdout(lines) ==
    IF lines = <<>> THEN <<>> ELSE Head(lines) \o NL \o Stdout(Tail(lines))

\* the decision of one poll tick of wait_for_ready on a fetched log text
DetectFailureFirst(c, text) ==
    IF \E p \in get_error_log_patterns(c) : In(p, text) THEN "FAILED"
    ELSE IF In(get_ready_log_pattern(c), text) THEN "READY"
    ELSE "WAITING"
DetectNeverFails(c, text) ==
    IF In(get_ready_log_pattern(c), text) THEN "READY" ELSE "WAITING"
DetectFailsWithoutMarker(c, text) ==
    IF In(get_ready_log_pattern(c), text) THEN "READY" ELSE "FAILED"
Detect(c, text) ==
    IF In(get_ready_log_pattern(c), text) THEN "READY"
    ELSE IF \E p \in get_error_log_patterns(c) : In(p, text) THEN "FAILED"
    ELSE "WAITING"

\* ------------------------------------------------------ Config.create (94-228)
\* 2.0 GiB of _validate_disk_space, in MiB
MinFreeMiB == 2048

WsDefault == <<"d","e","f","a","u","l","t">>
WsDotDot == <<".",".","/","e","t","c">>

\* the characters of the class [a-zA-Z0-9_-]
WorkspaceChars ==
    {"a","b","c","d","e","f","g","h","i","j","k","l","m","n","o","p","q","r","s","t","u","v",
     "w","x","y","z","A","B","C","D","E","F","G","H","I","J","K","L","M","N","O","P","Q","R",
     "S","T","U","V","W","X","Y","Z","0","1","2","3","4","5","6","7","8","9","_","-"}

\* the inputs of one invocation: the command line after the environment
\* overrides, and what the file system answers about the data directory.
\* bolt_port is Optional[int]: the empty set is None.
Configs ==
    [command : {"run", "pull"},
     debug : BOOLEAN,
     port : {0, DEFAULT_PORT, 70000},
     bolt_port : {{}, {0}, {DEFAULT_PORT}},
     workspace : {WsDefault, WsDotDot},
     parentExists : BOOLEAN,
     parentWritable : BOOLEAN,
     freeMiB : {MinFreeMiB - 1, MinFreeMiB}]

\* _validate_port: TRUE when it does not exit
_validate_port(port) == 1 <= port /\ port <= 65535

\* re.match(r"^[a-zA-Z0-9_-]+$", workspace): "$" matches at the end of the
\* string and also just before a newline that ends the string
_validate_workspace(w) ==
    LET body == IF Len(w) > 0 /\ w[Len(w)] = "\n" THEN SubSeq(w, 1, Len(w) - 1) ELSE w
    IN  /\ Len(body) > 0
        /\ \A i \in 1..Len(body) : body[i] \in WorkspaceChars

\* _validate_data_directory: the parent exists and is writable
_validate_data_directory(c) == c.parentExists /\ c.parentWritable

\* _validate_disk_space: free_gb < min_gb exits
_validate_disk_space(c) == ~(c.freeMiB < MinFreeMiB)

\* Config.create returns (TRUE) or ends in sys.exit(1) (FALSE)
ConfigCreateNoBoltClash(c) ==
    /\ _validate_port(c.port)
    /\ \A b \in c.bolt_port : _validate_port(b)
    /\ _validate_workspace(c.workspace)
    /\ _validate_data_directory(c)
    /\ _validate_disk_space(c)
ConfigCreate(c) ==
    /\ _validate_port(c.port)
    /\ \A b \in c.bolt_port : _validate_port(b) /\ b # c.port
    /\ _validate_workspace(c.workspace)
    /\ _validate_data_directory(c)
    /\ _validate_disk_space(c)

\* inputs of Config.create for its own specification: more ports and
\* workspace names, the rest of the configuration valid but for the parent
WsMine == <<"m","y","-","w","o","r","k","s","p","a","c","e","_","1">>
WsNewline == WsDefault \o NL
WsEmpty == <<>>
WsSpace == <<"a"," ","b">>
ConfigInputs ==
    [command : {"run", "pull"},
     debug : {FALSE},
     port : {0, 1, DEFAULT_PORT, 65535, 65536, 70000},
     bolt_port : {{}},
     workspace : {WsDefault, WsDotDot, WsMine, WsNewline, WsEmpty, WsSpace},
     parentExists : BOOLEAN,
     parentWritable : {TRUE},
     freeMiB : {MinFreeMiB}]

\* ---------------------------------------------------------------- state
VARIABLES
    cfg,              \* the inputs of this invocation
    stk,              \* control stack of frames, the running one last
    exitCode,         \* -1 while the process runs, then its exit code
    started,          \* BloodHoundCE._started_containers
    created_network,  \* NetworkManager._created_network
    running,          \* containers that exist in the runtime
    netExists,        \* the network exists in the runtime
    netPre,           \* the network existed before this invocation
    logs,             \* wait_for_ready's local logs: the lines of its latest fetch
    det,              \* per container, where its wait_for_ready ended
    issued,           \* commands handed to the runtime so far: <<verb, target>>
    startedOk,        \* containers whose run command returned exit code 0
    dirs,             \* setup_directories has created the directories
    sigs,             \* signals delivered so far
    netSeen,          \* what network_exists answered: "none", "present", "absent"
    createdOk,        \* the network create command returned exit code 0
    raised,           \* the parts of cleanup() that raised: "stop", "netrm"
    last,             \* the poll tick or the pull just executed, or NoTick
    cause,            \* why the main flow stopped: "none", "success", "failure", "signal"
    now,              \* int(time.time()): the clock, in seconds since the process began
    timestamp,        \* per container, ContainerManager.timestamp (-1: no manager yet)
    startTime,        \* per container, the clock when start() issued its run command
    since             \* per container, the --since values its poll ticks have passed

vars == <<cfg, stk, exitCode, started, created_network, running, netExists, netPre,
          logs, det, issued, startedOk, dirs, sigs, netSeen, createdOk, raised, last,
          cause, now, timestamp, startTime, since>>

NoTick == [c |-> "", out |-> "", text |-> <<>>]

\* what the runtime does with one command: exit code 0, a non-zero exit
\* code, the executable is missing (FileNotFoundError), or the spawn fails
\* otherwise (PermissionError, EAGAIN on fork: an OSError that is neither a
\* SubprocessError nor a FileNotFoundError)
Outcomes == {"zero", "nonzero", "fnf", "ose"}

\* what the runtime does with the logs command of a poll tick: as above,
\* the non-zero exit code told apart by its reason.  "missing": there is no
\* such container (it has ended and, started with --rm, has been removed);
\* "nonzero": any other reason
LogOutcomes == Outcomes \cup {"missing"}

\* exceptions; SystemExit is a BaseException and not an Exception
IsException(e) == e \in {"CalledProcessError", "FileNotFoundError", "OSError"}
IsSubprocessErrorOrFNF(e) == e \in {"CalledProcessError", "FileNotFoundError"}

\* a runner that never checks the exit code
RunCommandUnchecked(out, check) ==
    CASE out = "zero" -> "ok"
      [] out = "nonzero" -> "ok"
      [] out = "fnf" -> "FileNotFoundError"
      [] out = "ose" -> "OSError"
\* a runner that raises on every non-zero exit code, checking or not
RunCommandAlwaysChecks(out, check) ==
    CASE out = "zero" -> "ok"
      [] out = "nonzero" -> "CalledProcessError"
      [] out = "fnf" -> "FileNotFoundError"
      [] out = "ose" -> "OSError"
\* BloodHoundCE._run_command: what the caller gets for an outcome,
\* "ok" for a returned CompletedProcess, else the exception raised
_run_command(out, check) ==
    CASE out = "zero" -> "ok"
      [] out = "nonzero" -> IF check THEN "CalledProcessError" ELSE "ok"
      [] out = "fnf" -> "FileNotFoundError"
      [] out = "ose" -> "OSError"

\* the except clause of wait_for_ready (302)
WaitCatchesAll(e) == TRUE
WaitCatches(e) == IsException(e)

\* the except clause of run (733)
RunCatches(e) == IsException(e)

\* the except clause of _stop_containers (678)
StopCatches(e) == IsSubprocessErrorOrFNF(e)

\* the except clause of NetworkManager.cleanup (350)
NetworkCleanupCatchesNarrow(e) == IsSubprocessErrorOrFNF(e)
NetworkCleanupCatches(e) == IsException(e)

Frame(k, pc, i, pend) == [k |-> k, pc |-> pc, i |-> i, pend |-> pend]
CleanupKinds == {"exc", "exit", "sig"}
\* cleanup() entered: from run's except block ("exc", pend is the exception
\* to re-raise), from __exit__ ("exit", pend is what leaves the with block)
\* or from _signal_handler ("sig")
CleanupFrame(k, pend) == Frame(k, "stop", 1, pend)

Alive == stk # <<>>
Top == stk[Len(stk)]
Rest == SubSeq(stk, 1, Len(stk) - 1)

FetchPcs == {"neo_fetch", "bh_fetch"}
SleepOf(pc) == IF pc = "neo_fetch" THEN "neo_sleep" ELSE "bh_sleep"

\* Raise(s, e): exception e is raised at the current statement of the top
\* frame of s.  Return(s): the cleanup() that is the top frame of s returns.
\* Both give the stack to continue with and the exit code (-1: none yet).
RECURSIVE Raise(_, _), Return(_)
Raise(s, e) ==
    IF s = <<>> THEN [stk |-> <<>>, code |-> IF e = "SystemExit0" THEN 0 ELSE 1]
    ELSE
      LET f == s[Len(s)]
          r == SubSeq(s, 1, Len(s) - 1)
          inWait == f.pc \in FetchPcs /\ WaitCatches(e)
      IN  CASE f.k = "run" /\ inWait ->
                 \* wait_for_ready: except Exception: continue
                 [stk |-> r \o <<[f EXCEPT !.pc = SleepOf(f.pc)]>>, code |-> -1]
            [] f.k = "run" /\ ~inWait /\ RunCatches(e) ->
                 \* run: except Exception: cleanup(); raise
                 [stk |-> r \o <<CleanupFrame("exc", e)>>, code |-> -1]
            [] f.k = "run" /\ ~inWait /\ ~RunCatches(e) ->
                 \* SystemExit passes run's except clause; __exit__ runs
                 [stk |-> r \o <<CleanupFrame("exit", e)>>, code |-> -1]
            [] f.k \in CleanupKinds /\ f.pc = "netrm" /\ NetworkCleanupCatches(e) ->
                 \* NetworkManager.cleanup: except Exception: pass
                 Return(s)
            [] f.k = "exc" /\ ~(f.pc = "netrm" /\ NetworkCleanupCatches(e)) ->
                 \* an exception inside run's except block leaves run
                 [stk |-> r \o <<CleanupFrame("exit", e)>>, code |-> -1]
            [] OTHER -> Raise(r, e)
Return(s) ==
    LET f == s[Len(s)]
        r == SubSeq(s, 1, Len(s) - 1)
    IN  CASE f.k = "exc" -> [stk |-> r \o <<CleanupFrame("exit", f.pend)>>, code |-> -1]
          [] f.k = "exit" ->
               IF f.pend = "none" THEN [stk |-> <<>>, code |-> 0] ELSE Raise(r, f.pend)
          [] f.k = "sig" -> Raise(r, "SystemExit0")

\* ------------------------------------------------------------- helpers
InList(c) == \E i \in 1..Len(started) : started[i] = c

\* list.remove: the first occurrence goes
RECURSIVE RemoveFirst(_, _)
RemoveFirst(seq, c) ==
    IF seq = <<>> THEN <<>>
    ELSE IF Head(seq) = c THEN Tail(seq)
    ELSE <<Head(seq)>> \o RemoveFirst(Tail(seq), c)

\* the order of the containers list of _stop_containers (665-669)
StopOrder == <<BLOODHOUND_CONTAINER, NEO4J_CONTAINER, POSTGRES_CONTAINER>>

\* the images list of pull_images (626-630)
PullOrder == <<BLOODHOUND_IMAGE, NEO4J_IMAGE, POSTGRES_IMAGE>>

\* the position of the main flow in run, per container
RunPc(c) ==
    CASE c = POSTGRES_CONTAINER -> "pg_run"
      [] c = NEO4J_CONTAINER -> "neo_run"
      [] c = BLOODHOUND_CONTAINER -> "bh_run"
AppendPc(c) ==
    CASE c = POSTGRES_CONTAINER -> "pg_append"
      [] c = NEO4J_CONTAINER -> "neo_append"
      [] c = BLOODHOUND_CONTAINER -> "bh_append"
AfterAppendPcNoWait(c) ==
    CASE c = POSTGRES_CONTAINER -> "neo_run"
      [] c = NEO4J_CONTAINER -> "bh_run"
      [] c = BLOODHOUND_CONTAINER -> "bh_sleep"
AfterAppendPc(c) ==
    CASE c = POSTGRES_CONTAINER -> "neo_run"
      [] c = NEO4J_CONTAINER -> "neo_sleep"
      [] c = BLOODHOUND_CONTAINER -> "bh_sleep"
SleepPc(c) == IF c = NEO4J_CONTAINER THEN "neo_sleep" ELSE "bh_sleep"
FetchPc(c) == IF c = NEO4J_CONTAINER THEN "neo_fetch" ELSE "bh_fetch"
\* a loop that goes on polling when it has seen the ready pattern
AfterReadyPcKeepsPolling(c) == IF c = NEO4J_CONTAINER THEN "neo_sleep" ELSE "bh_sleep"
AfterReadyPc(c) == IF c = NEO4J_CONTAINER THEN "bh_run" ELSE "sql"
\* a run() that waits for every manager
WaitedWithPostgres == {POSTGRES_CONTAINER, NEO4J_CONTAINER, BLOODHOUND_CONTAINER}
\* the managers run() waits for (709, 713)
Waited == {NEO4J_CONTAINER, BLOODHOUND_CONTAINER}

At(k, pc) == Alive /\ Top.k = k /\ Top.pc = pc
Goto(pc) == stk' = Rest \o <<[Top EXCEPT !.pc = pc]>> /\ exitCode' = exitCode
Step(r) == stk' = r.stk /\ exitCode' = r.code
Issue(verb, target) == issued' = issued \cup {<<verb, target>>}

\* get_run_command of the manager of container c: the options of its run
\* command that do not name a resource.  BloodhoundManager leaves --detach
\* out in debug mode; Neo4jManager publishes the bolt port if one is given.
get_run_command(c) ==
    CASE c = POSTGRES_CONTAINER -> {"--rm", "--replace", "--detach"}
      [] c = NEO4J_CONTAINER ->
           {"--rm", "--detach", "--replace"}
             \cup (IF cfg.bolt_port # {} THEN {"--publish bolt"} ELSE {})
      [] c = BLOODHOUND_CONTAINER ->
           {"--rm", "--replace"} \cup (IF ~cfg.debug THEN {"--detach"} ELSE {})

\* the run command of c returns as soon as the container is created
Detached(c) == "--detach" \in get_run_command(c)

\* why the main flow (main, pull_images, run's try body) has stopped after a
\* step of it: it goes on ("none"), it returned ("success"), or it was left
\* by sys.exit(1) or an exception ("failure")
MainFlowCause ==
    IF stk' = <<>> THEN (IF exitCode' = 0 THEN "success" ELSE "failure")
    ELSE IF stk'[1].k \notin CleanupKinds THEN "none"
    ELSE IF stk'[1].pend = "none" THEN "success" ELSE "failure"

\* ---------------------------------------------------------------- Init
InitRest ==
    /\ stk = <<Frame("main", "config", 1, "none")>>
    /\ exitCode = -1
    /\ started = <<>>
    /\ created_network = FALSE
    /\ running = {}
    /\ netExists \in BOOLEAN
    /\ netPre = netExists
    /\ logs = <<>>
    /\ det = [c \in Containers |-> "WAITING"]
    /\ issued = {}
    /\ startedOk = {}
    /\ dirs = FALSE
    /\ sigs = 0
    /\ netSeen = "none"
    /\ createdOk = FALSE
    /\ raised = {}
    /\ last = NoTick
    /\ cause = "none"
    /\ now = 0
    /\ timestamp = [c \in Containers |-> -1]
    /\ startTime = [c \in Containers |-> -1]
    /\ since = [c \in Containers |-> {}]

Init == cfg \in Configs /\ InitRest

\* Config.create applied to the wider inputs
InitConfig == cfg \in ConfigInputs /\ InitRest

\* -------------------------------------------------------------- main (793)
\* Config.create, then BloodHoundCE(config), which installs the handler
main_config ==
    /\ At("main", "config")
    /\ IF ConfigCreate(cfg)
         THEN /\ stk' = <<IF cfg.command = "pull" THEN Frame("pull", "pull", 1, "none")
                          ELSE Frame("run", "dirs", 1, "none")>>
              /\ exitCode' = exitCode
         ELSE Step(Raise(stk, "SystemExit1"))
    /\ last' = NoTick
    /\ UNCHANGED <<cfg, started, created_network, running, netExists, netPre, logs, det,
                   issued, startedOk, dirs, sigs, netSeen, createdOk, raised>>
    /\ cause' = MainFlowCause
    /\ timestamp' = IF ConfigCreate(cfg) THEN [c \in Containers |-> now] ELSE timestamp
    /\ UNCHANGED <<now, startTime, since>>

\* pull_images: one pull per image, check=True
pull_images ==
    /\ At("pull", "pull")
    /\ \E out \in Outcomes :
         LET r == _run_command(out, TRUE) IN
         /\ Issue("pull", PullOrder[Top.i])
         /\ last' = [c |-> PullOrder[Top.i], out |-> out, text |-> <<>>]
         /\ IF r = "ok"
              THEN IF Top.i < Len(PullOrder)
                     THEN stk' = Rest \o <<[Top EXCEPT !.i = Top.i + 1]>> /\ exitCode' = exitCode
                     ELSE stk' = <<>> /\ exitCode' = 0
              ELSE Step(Raise(stk, r))
    /\ UNCHANGED <<cfg, started, created_network, running, netExists, netPre, logs, det,
                   startedOk, dirs, sigs, netSeen, createdOk, raised>>
    /\ cause' = MainFlowCause
    /\ UNCHANGED <<now, timestamp, startTime, since>>

\* ------------------------------------------------------------ run (698-736)
\* setup_directories: the three mkdir calls; they may raise an OSError
setup_directories ==
    /\ At("run", "dirs")
    /\ \E ok \in BOOLEAN :
         IF ok THEN dirs' = TRUE /\ Goto("net_exists")
         ELSE dirs' = dirs /\ Step(Raise(stk, "OSError"))
    /\ last' = NoTick
    /\ UNCHANGED <<cfg, started, created_network, running, netExists, netPre, logs, det,
                   issued, startedOk, sigs, netSeen, createdOk, raised>>
    /\ cause' = MainFlowCause
    /\ UNCHANGED <<now, timestamp, startTime, since>>

\* NetworkManager.network_exists as called by setup: check=False, and
\* SubprocessError and FileNotFoundError mean "absent"
network_exists ==
    /\ At("run", "net_exists")
    /\ \E out \in Outcomes :
         LET r == _run_command(out, FALSE) IN
         /\ out = "zero" => netExists
         /\ Issue("network exists", NETWORK_NAME)
         /\ IF r = "ok" /\ out = "zero" THEN netSeen' = "present" /\ Goto("pg_run")
            ELSE IF r = "ok" \/ IsSubprocessErrorOrFNF(r)
              THEN netSeen' = "absent" /\ Goto("net_create")
            ELSE netSeen' = netSeen /\ Step(Raise(stk, r))
    /\ last' = NoTick
    /\ UNCHANGED <<cfg, started, created_network, running, netExists, netPre, logs, det,
                   startedOk, dirs, sigs, createdOk, raised>>
    /\ cause' = MainFlowCause
    /\ UNCHANGED <<now, timestamp, startTime, since>>

\* NetworkManager.setup: the create command, check=True
network_create ==
    /\ At("run", "net_create")
    /\ \E out \in Outcomes :
         LET r == _run_command(out, TRUE) IN
         /\ out = "zero" => ~netExists
         /\ Issue("network create", NETWORK_NAME)
         /\ IF r = "ok" THEN netExists' = TRUE /\ createdOk' = TRUE /\ Goto("net_flag")
            ELSE netExists' = netExists /\ createdOk' = createdOk /\ Step(Raise(stk, r))
    /\ last' = NoTick
    /\ UNCHANGED <<cfg, started, created_network, running, netPre, logs, det,
                   startedOk, dirs, sigs, netSeen, raised>>
    /\ cause' = MainFlowCause
    /\ UNCHANGED <<now, timestamp, startTime, since>>

\* NetworkManager.setup: self._created_network = True
network_created ==
    /\ At("run", "net_flag")
    /\ created_network' = TRUE
    /\ Goto("pg_run")
    /\ last' = NoTick
    /\ UNCHANGED <<cfg, started, running, netExists, netPre, logs, det, issued,
                   startedOk, dirs, sigs, netSeen, createdOk, raised>>
    /\ cause' = MainFlowCause
    /\ UNCHANGED <<now, timestamp, startTime, since>>

\* ContainerManager.start with a detached run command, check=True
start(c) ==
    /\ At("run", RunPc(c))
    /\ Detached(c)
    /\ \E out \in Outcomes :
         LET r == _run_command(out, TRUE) IN
         /\ out = "zero" => netExists
         /\ Issue("run", c)
         /\ IF r = "ok"
              THEN /\ running' = running \cup {c}
                   /\ startedOk' = startedOk \cup {c}
                   /\ Goto(AppendPc(c))
              ELSE /\ UNCHANGED <<running, startedOk>>
                   /\ Step(Raise(stk, r))
    /\ last' = NoTick
    /\ UNCHANGED <<cfg, started, created_network, netExists, netPre, logs, det, dirs, sigs, netSeen, createdOk, raised>>
    /\ cause' = MainFlowCause
    /\ startTime' = [startTime EXCEPT ![c] = now]
    /\ UNCHANGED <<now, timestamp, since>>

\* ContainerManager.start of BloodHound in debug mode: the run command is
\* not detached, the call lasts as long as the container
start_foreground ==
    /\ At("run", "bh_run")
    /\ ~Detached(BLOODHOUND_CONTAINER)
    /\ \E out \in {"zero", "fnf", "ose"} :
         /\ out = "zero" => netExists
         /\ Issue("run", BLOODHOUND_CONTAINER)
         /\ IF out = "zero"
              THEN running' = running \cup {BLOODHOUND_CONTAINER} /\ Goto("bh_fg")
              ELSE running' = running /\ Step(Raise(stk, _run_command(out, TRUE)))
    /\ last' = NoTick
    /\ UNCHANGED <<cfg, started, created_network, netExists, netPre, logs, det,
                   startedOk, dirs, sigs, netSeen, createdOk, raised>>
    /\ cause' = MainFlowCause
    /\ startTime' = [startTime EXCEPT ![BLOODHOUND_CONTAINER] = now]
    /\ UNCHANGED <<now, timestamp, since>>

\* the foreground run command ends when the container ends
foreground_exit ==
    /\ At("run", "bh_fg")
    /\ \E out \in {"zero", "nonzero"} :
         /\ running' = running \ {BLOODHOUND_CONTAINER}
         /\ IF out = "zero"
              THEN startedOk' = startedOk \cup {BLOODHOUND_CONTAINER} /\ Goto("bh_append")
              ELSE startedOk' = startedOk /\ Step(Raise(stk, _run_command(out, TRUE)))
    /\ last' = NoTick
    /\ UNCHANGED <<cfg, started, created_network, netExists, netPre, logs, det, issued,
                   dirs, sigs, netSeen, createdOk, raised>>
    /\ cause' = MainFlowCause
    /\ UNCHANGED <<now, timestamp, startTime, since>>

\* run_postgres, run_neo4j, run_bloodhound: self._started_containers.append
append(c) ==
    /\ At("run", AppendPc(c))
    /\ started' = Append(started, c)
    /\ Goto(AfterAppendPc(c))
    /\ last' = NoTick
    /\ UNCHANGED <<cfg, created_network, running, netExists, netPre, logs, det, issued,
                   startedOk, dirs, sigs, netSeen, createdOk, raised>>
    /\ cause' = MainFlowCause
    /\ UNCHANGED <<now, timestamp, startTime, since>>

\* --------------------------------------------- wait_for_ready (266-303)
\* time.sleep(1), outside the try block
sleep(c) ==
    /\ At("run", SleepPc(c))
    /\ Goto(FetchPc(c))
    /\ last' = NoTick
    /\ UNCHANGED <<cfg, started, created_network, running, netExists, netPre, logs, det,
                   issued, startedOk, dirs, sigs, netSeen, createdOk, raised>>
    /\ cause' = MainFlowCause
    /\ UNCHANGED <<now, timestamp, startTime, since>>

\* one poll tick: the logs command (capture_output, check=False) and the
\* decision on its result.  Exit code 0 needs the container to exist; the
\* text it returns extends the text of the fetch before.  The local logs
\* ends with the call.  A fetch that finds the container missing is the
\* step at which the container's end shows.
tick(c) ==
    /\ At("run", FetchPc(c))
    /\ \E out \in LogOutcomes, text \in Extensions(logs, c) :
         LET r == _run_command(IF out = "missing" THEN "nonzero" ELSE out, FALSE)
             d == Detect(c, Stdout(text))
         IN
         /\ out = "zero" => c \in running
         /\ out # "zero" => text = logs
         /\ running' = IF out = "missing" THEN running \ {c} ELSE running
         /\ Issue("logs", c)
         /\ last' = [c |-> c, out |-> out, text |-> text]
         /\ IF r = "ok" /\ out = "zero"
              THEN CASE d = "READY" -> /\ det' = [det EXCEPT ![c] = "READY"]
                                       /\ logs' = <<>>
                                       /\ Goto(AfterReadyPc(c))
                     [] d = "FAILED" -> /\ det' = [det EXCEPT ![c] = "FAILED"]
                                        /\ logs' = <<>>
                                        /\ Step(Raise(stk, "SystemExit1"))
                     [] OTHER -> det' = det /\ logs' = text /\ Goto(SleepPc(c))
            ELSE IF r = "ok"
              THEN /\ det' = [det EXCEPT ![c] = "FATAL"]
                   /\ logs' = <<>>
                   /\ Step(Raise(stk, "SystemExit1"))
            ELSE det' = det /\ logs' = logs /\ Step(Raise(stk, r))
    /\ UNCHANGED <<cfg, started, created_network, netExists, netPre,
                   startedOk, dirs, sigs, netSeen, createdOk, raised>>
    /\ cause' = MainFlowCause
    /\ since' = [since EXCEPT ![c] = since[c] \cup {timestamp[c]}]
    /\ UNCHANGED <<now, timestamp, startTime>>

\* ------------------------------------------- after readiness (716-731)
\* PostgresManager.set_password_expiry: the exec command, check=True
set_password_expiry ==
    /\ At("run", "sql")
    /\ \E out \in Outcomes :
         LET r == _run_command(out, TRUE) IN
         /\ out = "zero" => POSTGRES_CONTAINER \in running
         /\ Issue("exec", POSTGRES_CONTAINER)
         /\ IF r = "ok" THEN Goto("attach_logs") ELSE Step(Raise(stk, r))
    /\ last' = NoTick
    /\ UNCHANGED <<cfg, started, created_network, running, netExists, netPre, logs, det,
                   startedOk, dirs, sigs, netSeen, createdOk, raised>>
    /\ cause' = MainFlowCause
    /\ UNCHANGED <<now, timestamp, startTime, since>>

\* attach_for_monitoring: the logs command shown first, check=False
attach_logs ==
    /\ At("run", "attach_logs")
    /\ \E out \in Outcomes :
         LET r == _run_command(out, FALSE) IN
         /\ out = "zero" => BLOODHOUND_CONTAINER \in running
         /\ Issue("logs", BLOODHOUND_CONTAINER)
         /\ IF r = "ok" THEN Goto("attach") ELSE Step(Raise(stk, r))
    /\ last' = NoTick
    /\ UNCHANGED <<cfg, started, created_network, running, netExists, netPre, logs, det,
                   startedOk, dirs, sigs, netSeen, createdOk, raised>>
    /\ cause' = MainFlowCause
    /\ UNCHANGED <<now, timestamp, startTime, since>>

\* attach_for_monitoring: subprocess.run([backend, "attach", ...]) starts
attach ==
    /\ At("run", "attach")
    /\ \E out \in {"zero", "fnf", "ose"} :
         /\ Issue("attach", BLOODHOUND_CONTAINER)
         /\ IF out = "zero" THEN Goto("attaching")
            ELSE Step(Raise(stk, _run_command(out, FALSE)))
    /\ last' = NoTick
    /\ UNCHANGED <<cfg, started, created_network, running, netExists, netPre, logs, det,
                   startedOk, dirs, sigs, netSeen, createdOk, raised>>
    /\ cause' = MainFlowCause
    /\ UNCHANGED <<now, timestamp, startTime, since>>

\* the attach command ends, run returns and the with block is left
attach_returns ==
    /\ At("run", "attaching")
    /\ stk' = Rest \o <<CleanupFrame("exit", "none")>>
    /\ exitCode' = exitCode
    /\ last' = NoTick
    /\ UNCHANGED <<cfg, started, created_network, running, netExists, netPre, logs, det,
                   issued, startedOk, dirs, sigs, netSeen, createdOk, raised>>
    /\ cause' = MainFlowCause
    /\ UNCHANGED <<now, timestamp, startTime, since>>

\* ------------------------------------------------------ cleanup (556-559)
InCleanup(pc) == Alive /\ Top.k \in CleanupKinds /\ Top.pc = pc

\* positions of the containers list still to visit that are on the
\* started list
ToStop == {j \in Top.i..Len(StopOrder) : InList(StopOrder[j])}
Min(S) == CHOOSE x \in S : \A y \in S : x <= y

\* _stop_containers: the next container of the list that is on the started
\* list gets its stop command (check=False)
stop_container ==
    /\ InCleanup("stop")
    /\ ToStop # {}
    /\ LET j == Min(ToStop)
           c == StopOrder[j]
       IN \E out \in Outcomes :
            LET r == _run_command(out, FALSE) IN
            /\ Issue("stop", c)
            /\ running' = IF out = "zero" THEN running \ {c} ELSE running
            /\ IF r = "ok"
                 THEN /\ stk' = Rest \o <<[Top EXCEPT !.pc = "remove", !.i = j]>>
                      /\ exitCode' = exitCode
                      /\ raised' = raised
               ELSE IF StopCatches(r)
                 THEN /\ stk' = Rest \o <<[Top EXCEPT !.i = j + 1]>>
                      /\ exitCode' = exitCode
                      /\ raised' = raised
               ELSE Step(Raise(stk, r)) /\ raised' = raised \cup {"stop"}
    /\ last' = NoTick
    /\ UNCHANGED <<cfg, started, created_network, netExists, netPre, logs, det,
                   startedOk, dirs, sigs, netSeen, createdOk, cause>>
    /\ UNCHANGED <<now, timestamp, startTime, since>>

\* _stop_containers: self._started_containers.remove(container)
remove_container ==
    /\ InCleanup("remove")
    /\ started' = RemoveFirst(started, StopOrder[Top.i])
    /\ stk' = Rest \o <<[Top EXCEPT !.pc = "stop", !.i = Top.i + 1]>>
    /\ exitCode' = exitCode
    /\ last' = NoTick
    /\ UNCHANGED <<cfg, created_network, running, netExists, netPre, logs, det, issued,
                   startedOk, dirs, sigs, netSeen, createdOk, raised, cause>>
    /\ UNCHANGED <<now, timestamp, startTime, since>>

\* NetworkManager.cleanup once the loop of _stop_containers is over: the
\* rm command is started if this run created the network
network_cleanup ==
    /\ InCleanup("stop")
    /\ ToStop = {}
    /\ IF created_network
         THEN /\ Issue("network rm", NETWORK_NAME)
              /\ stk' = Rest \o <<[Top EXCEPT !.pc = "netrm"]>>
              /\ exitCode' = exitCode
         ELSE /\ issued' = issued
              /\ Step(Return(stk))
    /\ last' = NoTick
    /\ UNCHANGED <<cfg, started, created_network, running, netExists, netPre, logs, det,
                   startedOk, dirs, sigs, netSeen, createdOk, raised, cause>>
    /\ UNCHANGED <<now, timestamp, startTime, since>>

\* the rm command ends (check=False, every exception swallowed) and
\* cleanup returns to its caller
network_removed ==
    /\ InCleanup("netrm")
    /\ \E out \in Outcomes :
         LET r == _run_command(out, FALSE) IN
         /\ netExists' = IF out = "zero" THEN FALSE ELSE netExists
         /\ IF r = "ok" THEN Step(Return(stk)) ELSE Step(Raise(stk, r))
         /\ raised' = IF r = "ok" \/ NetworkCleanupCatches(r) THEN raised
                       ELSE raised \cup {"netrm"}
    /\ last' = NoTick
    /\ UNCHANGED <<cfg, started, created_network, running, netPre, logs, det, issued,
                   startedOk, dirs, sigs, netSeen, createdOk, cause>>
    /\ UNCHANGED <<now, timestamp, startTime, since>>

\* ----------------------------------------------- _signal_handler (550-554)
\* SIGINT or SIGTERM is delivered: the handler starts on top of what runs
signal ==
    /\ Alive
    /\ Top.k # "main"
    /\ sigs < MaxSignals
    /\ sigs' = sigs + 1
    /\ stk' = stk \o <<CleanupFrame("sig", "none")>>
    /\ exitCode' = exitCode
    /\ last' = NoTick
    /\ UNCHANGED <<cfg, started, created_network, running, netExists, netPre, logs, det,
                   issued, startedOk, dirs, netSeen, createdOk, raised>>
    /\ cause' = IF cause = "none" THEN "signal" ELSE cause
    /\ UNCHANGED <<now, timestamp, startTime, since>>

Next ==
    \/ main_config
    \/ pull_images
    \/ setup_directories
    \/ network_exists
    \/ network_create
    \/ network_created
    \/ \E c \in Containers : start(c)
    \/ start_foreground
    \/ foreground_exit
    \/ \E c \in Containers : append(c)
    \/ \E c \in Waited : sleep(c)
    \/ \E c \in Waited : tick(c)
    \/ set_password_expiry
    \/ attach_logs
    \/ attach
    \/ attach_returns
    \/ stop_container
    \/ remove_container
    \/ network_cleanup
    \/ network_removed
    \/ signal

Spec == Init /\ [][Next]_vars

\* ------------------------------------------------ run under a clock
\* a second passes
advance ==
    /\ Alive
    /\ now < MaxClock
    /\ now' = now + 1
    /\ UNCHANGED <<cfg, stk, exitCode, started, created_network, running, netExists, netPre,
                   logs, det, issued, startedOk, dirs, sigs, netSeen, createdOk, raised, last,
                   cause, timestamp, startTime, since>>

\* run mode with a valid configuration and no signal
InitRun == cfg \in {x \in Configs : ConfigCreate(x) /\ x.command = "run"} /\ InitRest
NextRun ==
    \/ main_config
    \/ setup_directories
    \/ network_exists
    \/ network_create
    \/ network_created
    \/ \E c \in Containers : start(c)
    \/ start_foreground
    \/ foreground_exit
    \/ \E c \in Containers : append(c)
    \/ \E c \in Waited : sleep(c)
    \/ \E c \in Waited : tick(c)
    \/ set_password_expiry
    \/ attach_logs
    \/ attach
    \/ attach_returns
    \/ stop_container
    \/ remove_container
    \/ network_cleanup
    \/ network_removed

\* the same with the clock advancing between any two steps
NextSince == NextRun \/ advance
SpecSince == InitRun /\ [][NextSince]_vars

\* the same without the clock, the poll loop of wait_for_ready always
\* going on to its next statement
SpecLive ==
    /\ InitRun
    /\ [][NextRun]_vars
    /\ \A c \in Waited : WF_vars(sleep(c)) /\ WF_vars(tick(c))

\* ------------------------------------------ the detector on its own
\* log lines for the detector of each manager: its markers, markers in
\* another case, a marker cut short, and a line without any marker
LinePgFatalLower ==
    <<"f","a","t","a","l",":">>
LineNeoErrorLower ==
    <<"e","r","r","o","r">>
LineNeoErrorUpper ==
    <<"E","R","R","O","R">>
LineBhErrorNoSpace ==
    <<"E","r","r","o","r",":">>
LineBhLevelUpper ==
    <<"\"","L","E","V","E","L","\"",":","\"","E","R","R","O","R","\"">>
LineBhReadyLower ==
    <<"s","e","r","v","e","r"," ","s","t","a","r","t","e","d"," ","s","u","c","c","e","s",
      "s","f","u","l","l","y">>
DetectLines(c) ==
    CASE c = POSTGRES_CONTAINER ->
           {LineStarting, PostgresReadyPattern, PgErrFatal, PgErrError, PgErrCould,
            LinePgFatalLower}
      [] c = NEO4J_CONTAINER ->
           {LineStarting, Neo4jReadyPattern, NeoErr, LineNeoErrorLower, LineNeoErrorUpper}
      [] c = BLOODHOUND_CONTAINER ->
           {LineStarting, BloodhoundReadyPattern, BhErrLevelError, BhErrLevelFatal,
            BhErrError, LineBhErrorNoSpace, LineBhLevelUpper, LineBhReadyLower}

\* the log texts handed to the detector: up to MaxLogLen lines
DetectInputs(c) == UNION {[1..k -> DetectLines(c)] : k \in 0..MaxLogLen}

\* one successful log fetch of the manager of c and the decision of
\* wait_for_ready on it
detect(c) ==
    /\ last = NoTick
    /\ \E text \in DetectInputs(c) :
         /\ last' = [c |-> c, out |-> "zero", text |-> text]
         /\ det' = [det EXCEPT ![c] = Detect(c, Stdout(text))]
    /\ UNCHANGED <<cfg, stk, exitCode, started, created_network, running, netExists, netPre,
                   logs, issued, startedOk, dirs, sigs, netSeen, createdOk, raised, cause>>
    /\ UNCHANGED <<now, timestamp, startTime, since>>

InitDetect == cfg \in {x \in Configs : ConfigCreate(x)} /\ InitRest
NextDetect == \E c \in Containers : detect(c)
SpecDetect == InitDetect /\ [][NextDetect]_vars

\* Config.create alone, on ConfigInputs
NextConfig == main_config
SpecConfig == InitConfig /\ [][NextConfig]_vars

\* ======================================================================
\* Properties
\* ======================================================================
HasReady(c, lines) == In(get_ready_log_pattern(c), Stdout(lines))
HasError(c, lines) == \E p \in get_error_log_patterns(c) : In(p, Stdout(lines))

\* the state is the one right after a poll tick of c whose logs command
\* returned exit code 0; last.text is the text it returned
TickOk(c) == last.c = c /\ last.out = "zero"

\* no frame of the stack is run's try body: no poll loop can go on
NoRunFrame == \A n \in 1..Len(stk) : stk[n].k # "run"

\* the positions where pattern starts in text
Pos(pattern, text) ==
    {i \in 1..(Len(text) - Len(pattern) + 1) : SubSeq(text, i, i + Len(pattern) - 1) = pattern}

\* some failure marker starts in the text before every occurrence of the
\* ready pattern (or the ready pattern does not occur)
FailureFirst(c, lines) ==
    LET t == Stdout(lines) IN
    \E p \in get_error_log_patterns(c) :
        \E i \in Pos(p, t) : \A k \in Pos(get_ready_log_pattern(c), t) : i < k

\* C1: after a poll tick whose fetch returned exit code 0 and whose text
\* contains the ready pattern, wait_for_ready has returned normally (the
\* detector is READY, the main flow stands at the step after the wait, the
\* process has not exited), also when the text contains failure markers.
C1_SuccessHasPriority ==
    \A c \in Waited :
        (TickOk(c) /\ HasReady(c, last.text)) =>
            /\ det[c] = "READY"
            /\ exitCode = -1
            /\ Alive
            /\ Top = Frame("run", AfterReadyPc(c), 1, "none")

\* C1 witness: a tick saw the ready pattern together with a failure marker
C1_Witness ==
    \E c \in Waited :
        TickOk(c) /\ HasReady(c, last.text) /\ HasError(c, last.text) /\ det[c] = "READY"

C3_FailureBeforeSuccessFails ==
    \A c \in Waited :
        (TickOk(c) /\ FailureFirst(c, last.text)) => det[c] = "FAILED"

\* C3 amended: a tick that scans a log with a failure marker and without
\* the ready pattern puts the detector in FAILED, and FAILED is never left;
\* a tick that scans a log with both puts it in READY, whatever their order.
C3_FailureSeenAloneFails ==
    [][\A c \in Waited :
          /\ det[c] = "FAILED" => det'[c] = "FAILED"
          /\ (last'.c = c /\ last'.out = "zero" /\ HasError(c, last'.text)) =>
                IF HasReady(c, last'.text) THEN det'[c] = "READY" /\ det[c] = "WAITING"
                ELSE det'[c] = "FAILED"]_vars

\* C3 witness: the failure marker came first, the tick saw both, READY
C3_Witness ==
    \E c \in Waited :
        TickOk(c) /\ FailureFirst(c, last.text) /\ HasReady(c, last.text) /\ det[c] = "READY"

\* C4: a poll tick whose fetch returned exit code 0 and whose text has
\* neither the ready pattern nor a failure marker changes nothing but the
\* position of the loop: the detector stays WAITING, the process goes on,
\* no container is started or stopped, the only command is the logs
\* command, and the main flow stands at the sleep before the next tick.
C4_NeitherKeepsWaiting ==
    [][\A c \in Waited :
          (last'.c = c /\ last'.out = "zero"
             /\ ~HasReady(c, last'.text) /\ ~HasError(c, last'.text)) =>
                /\ det' = det /\ det[c] = "WAITING"
                /\ exitCode' = -1
                /\ started' = started /\ running' = running
                /\ issued' = issued \cup {<<"logs", c>>}
                /\ Top.k = "run" /\ Top.pc = FetchPc(c)
                /\ stk' = Rest \o <<[Top EXCEPT !.pc = SleepPc(c)]>>]_vars

\* C4 witness: a tick saw a non-empty text without any marker and the loop
\* stands at its sleep
C4_Witness ==
    \E c \in Waited :
        /\ TickOk(c) /\ last.text # <<>>
        /\ ~HasReady(c, last.text) /\ ~HasError(c, last.text)
        /\ Alive /\ Top.k = "run" /\ Top.pc = SleepPc(c)

\* the commands of the main flow
CmdNetExists == <<"network exists", NETWORK_NAME>>
CmdNetCreate == <<"network create", NETWORK_NAME>>
CmdNetRm == <<"network rm", NETWORK_NAME>>
CmdRun(c) == <<"run", c>>
CmdLogs(c) == <<"logs", c>>
CmdStop(c) == <<"stop", c>>
CmdExec == <<"exec", POSTGRES_CONTAINER>>
CmdAttach == <<"attach", BLOODHOUND_CONTAINER>>

\* the step hands command x to the runtime for the first time
New(x) == x \in issued' /\ x \notin issued
\* none of the commands xs has been handed to the runtime
NotYet(xs) == issued \cap xs = {}

\* C5: the commands of run are issued in the order network check (and
\* create), Postgres run, Neo4j run, Neo4j polls, BloodHound run, BloodHound
\* polls, SQL statement, attach; each is issued only when the step before
\* it has succeeded and no command of a later step has been issued.
C5_FixedOrder ==
    [][/\ New(CmdRun(POSTGRES_CONTAINER)) =>
            /\ CmdNetExists \in issued
            /\ netSeen = "present" \/ createdOk
            /\ NotYet({CmdRun(NEO4J_CONTAINER), CmdLogs(NEO4J_CONTAINER),
                       CmdRun(BLOODHOUND_CONTAINER), CmdLogs(BLOODHOUND_CONTAINER),
                       CmdExec, CmdAttach})
       /\ New(CmdRun(NEO4J_CONTAINER)) =>
            /\ POSTGRES_CONTAINER \in startedOk
            /\ NotYet({CmdLogs(NEO4J_CONTAINER), CmdRun(BLOODHOUND_CONTAINER),
                       CmdLogs(BLOODHOUND_CONTAINER), CmdExec, CmdAttach})
       /\ last'.c = NEO4J_CONTAINER =>
            /\ NEO4J_CONTAINER \in startedOk
            /\ det[NEO4J_CONTAINER] = "WAITING"
            /\ NotYet({CmdRun(BLOODHOUND_CONTAINER), CmdLogs(BLOODHOUND_CONTAINER),
                       CmdExec, CmdAttach})
       /\ New(CmdRun(BLOODHOUND_CONTAINER)) =>
            /\ det[NEO4J_CONTAINER] = "READY"
            /\ NotYet({CmdLogs(BLOODHOUND_CONTAINER), CmdExec, CmdAttach})
       /\ last'.c = BLOODHOUND_CONTAINER =>
            /\ BLOODHOUND_CONTAINER \in startedOk
            /\ det[NEO4J_CONTAINER] = "READY" /\ det[BLOODHOUND_CONTAINER] = "WAITING"
            /\ NotYet({CmdExec, CmdAttach})
       /\ New(CmdExec) =>
            /\ det[BLOODHOUND_CONTAINER] = "READY"
            /\ NotYet({CmdAttach})
       /\ New(CmdAttach) =>
            /\ det[BLOODHOUND_CONTAINER] = "READY"
            /\ CmdExec \in issued]_vars

\* C5 witness: the whole sequence was issued, up to attach
C5_Witness == CmdAttach \in issued /\ At("run", "attaching")

\* C6: when the process has ended and a signal had been delivered, the exit
\* code is 0, every container whose run command returned exit code 0 has
\* been sent a stop command and the network, if this run created it, has
\* been sent an rm command.
C6_SignalStopsEverything ==
    (~Alive /\ sigs > 0) =>
        /\ exitCode = 0
        /\ \A c \in startedOk : CmdStop(c) \in issued
        /\ createdOk => CmdNetRm \in issued

\* C7: when the process has ended with exit code 1 and without any signal,
\* every container whose run command returned exit code 0 has been sent a
\* stop command and the network, if this run created it, an rm command.
C7_FailureCleansUp ==
    (~Alive /\ exitCode = 1 /\ sigs = 0) =>
        /\ \A c \in startedOk : CmdStop(c) \in issued
        /\ createdOk => CmdNetRm \in issued

\* C8: no call of cleanup raises, stop commands go only to containers whose
\* run command returned exit code 0 in this run, and the rm command is
\* issued only for a network this run created.
C8_CleanupNeverRaises ==
    /\ raised = {}
    /\ \A c \in Containers : CmdStop(c) \in issued => c \in startedOk
    /\ CmdNetRm \in issued => createdOk

\* C9: the create command is issued only after the existence check said
\* "absent"; the flag is set only when create returned exit code 0; the rm
\* command is issued only with the flag set, never for a network that was
\* there before the run; and NetworkManager.cleanup never raises.
C9_NetworkOwnedOnly ==
    /\ CmdNetCreate \in issued => netSeen = "absent"
    /\ netSeen = "present" => netPre
    /\ created_network => createdOk /\ ~netPre
    /\ CmdNetRm \in issued => created_network
    /\ netPre => CmdNetRm \notin issued
    /\ "netrm" \notin raised

\* C9 witness: the network was created by this run, its rm command was
\* issued and did not remove it (non-zero exit or spawn failure), and the
\* process ended without cleanup raising
C9_Witness ==
    /\ CmdNetRm \in issued /\ created_network /\ ~netPre
    /\ netExists /\ ~Alive /\ raised = {}

\* the configuration is one of those the validation is to refuse
C10_Invalid ==
    \/ cfg.port < 1 \/ cfg.port > 65535
    \/ \E b \in cfg.bolt_port : b < 1 \/ b > 65535 \/ b = cfg.port
    \/ cfg.workspace = WsDotDot
    \/ ~cfg.parentExists \/ ~cfg.parentWritable
    \/ cfg.freeMiB < 2048

\* C10: with an invalid configuration the process never gets past
\* Config.create: no directory is created, no command is issued, the
\* orchestrator is never constructed, and the process ends with exit code 1.
C10_InvalidConfigTouchesNothing ==
    C10_Invalid =>
        /\ issued = {} /\ ~dirs /\ running = {} /\ netExists = netPre
        /\ Alive => (stk = <<Frame("main", "config", 1, "none")>> /\ exitCode = -1)
        /\ ~Alive => exitCode = 1

\* C10 witness: pull mode, bolt port equal to the port, ended with code 1
C10_Witness ==
    /\ cfg.command = "pull" /\ cfg.bolt_port = {cfg.port} /\ cfg.port = DEFAULT_PORT
    /\ ~Alive /\ exitCode = 1

\* a non-empty name made only of letters, digits, underscore and hyphen
C11_NameOk(w) == Len(w) > 0 /\ \A i \in 1..Len(w) : w[i] \in WorkspaceChars
C11_PortOk(p) == 1 <= p /\ p <= 65535
\* Config.create has decided
C11_Decided == ~At("main", "config")

\* C11: Config.create accepts exactly the ports of 1..65535 and exactly the
\* non-empty workspace names made of letters, digits, underscore and hyphen
\* (the rest of the configuration being valid); every other input ends the
\* process with exit code 1.
C11_AcceptsExactly ==
    C11_Decided =>
        /\ (C11_PortOk(cfg.port) /\ C11_NameOk(cfg.workspace) /\ cfg.parentExists) => Alive
        /\ ~(C11_PortOk(cfg.port) /\ C11_NameOk(cfg.workspace)) => (~Alive /\ exitCode = 1)

\* a run with default options: no --data-dir and no DATA_DIR, so that the
\* parent of the data directory is <XDG data home>/dockerhound; the default
\* port and workspace, no bolt port, enough free space, and the parent
\* writable if it is there
C12_Default ==
    /\ cfg.command = "run" /\ cfg.port = DEFAULT_PORT /\ cfg.bolt_port = {}
    /\ cfg.workspace = WsDefault /\ cfg.freeMiB >= 2048
    /\ cfg.parentExists => cfg.parentWritable

\* C12: a run with default options gets past Config.create to
\* setup_directories, whether <XDG data home>/dockerhound exists beforehand
\* or not, and issues the run command of Postgres only with the directories
\* created.
C12_DefaultRunProceeds ==
    [][/\ (At("main", "config") /\ C12_Default) =>
             stk' = <<Frame("run", "dirs", 1, "none")>>
       /\ (C12_Default /\ <<"run", POSTGRES_CONTAINER>> \in issued') => dirs]_vars

\* C13: when the process has ended, its exit code is 0 exactly when the
\* main flow stopped by success (attach returned, all images pulled) or was
\* first stopped by a signal, and 1 when it stopped by a validation or
\* startup failure; what happens during the cleanup that follows does not
\* change it.
C13_ExitCodeByCause ==
    ~Alive => /\ cause \in {"success", "signal"} => exitCode = 0
              /\ cause = "failure" => exitCode = 1

\* the pull command of the k-th image of pull_images
CmdPull(k) == <<"pull", PullOrder[k]>>

\* C14: in pull mode nothing but pull commands is ever issued and nothing
\* is created, started or stopped.  Each pull is the first and only pull
\* of its image and comes when exactly the images before it have been
\* pulled; a pull that does not exit with code 0 ends the process with
\* exit code 1, so that the remaining images are not pulled; the third
\* successful pull ends the process with exit code 0.
C14_PullOnly ==
    [][cfg.command = "pull" =>
         /\ issued' \subseteq {CmdPull(k) : k \in 1..3}
         /\ ~dirs' /\ running' = {} /\ started' = <<>>
         /\ netExists' = netExists /\ ~created_network'
         /\ \A k \in 1..3 :
               last'.c = PullOrder[k] =>
                 /\ issued = {CmdPull(j) : j \in 1..(k - 1)}
                 /\ issued' = {CmdPull(j) : j \in 1..k}
                 /\ last'.out # "zero" => (~Alive' /\ exitCode' = 1)
                 /\ (last'.out = "zero" /\ k < 3) => (Alive' /\ exitCode' = -1)
                 /\ (last'.out = "zero" /\ k = 3) => (~Alive' /\ exitCode' = 0)]_vars

\* C14 witness: pull mode ended with exit code 0 after the third pull
C14_Witness ==
    /\ cfg.command = "pull" /\ ~Alive /\ exitCode = 0
    /\ last.c = PullOrder[3] /\ issued = {CmdPull(k) : k \in 1..3}

\* C15: a poll tick whose log fetch fails transiently (the command cannot
\* be spawned, or it exits non-zero because the container is missing) is
\* swallowed: the detector stays WAITING, the process goes on, no cleanup
\* starts and the loop stands at the sleep before the next tick.
C15_TransientFetchFailureSwallowed ==
    [][\A c \in Waited :
          (last'.c = c /\ last'.out \in {"fnf", "ose", "missing"}) =>
             /\ det' = det /\ det[c] = "WAITING"
             /\ exitCode' = -1
             /\ stk' = <<Frame("run", SleepPc(c), 1, "none")>>]_vars

\* C16: a poll tick whose log fetch exits non-zero for a reason other than
\* a missing container leaves wait_for_ready by sys.exit(1) without polling
\* again; one that exits non-zero because the container is missing does
\* not: the poll loop goes on.
C16_NonZeroFetchFatalUnlessMissing ==
    [][\A c \in Waited :
          /\ (last'.c = c /\ last'.out = "nonzero") =>
                /\ det'[c] = "FATAL"
                /\ stk' = <<CleanupFrame("exit", "SystemExit1")>>
          /\ (last'.c = c /\ last'.out = "missing") =>
                /\ det'[c] # "FATAL"
                /\ ~NoRunFrame']_vars

\* C17: every run command issued carries the detach, auto-remove and
\* replace options, and start() never waits for a container to end.
C17_RunCommandsDetached ==
    /\ \A c \in Containers :
          <<"run", c>> \in issued => {"--detach", "--rm", "--replace"} \subseteq get_run_command(c)
    /\ ~At("run", "bh_fg")

C19_Success(c) ==
    CASE c = POSTGRES_CONTAINER ->
        <<"d","a","t","a","b","a","s","e"," ","s","y","s","t","e","m"," ","i","s"," ","r","e",
      "a","d","y"," ","t","o"," ","a","c","c","e","p","t"," ","c","o","n","n","e","c","t",
      "i","o","n","s">>
      [] c = NEO4J_CONTAINER ->
        <<"R","e","m","o","t","e"," ","i","n","t","e","r","f","a","c","e"," ","a","v","a","i",
      "l","a","b","l","e"," ","a","t"," ","h","t","t","p",":","/","/","l","o","c","a","l",
      "h","o","s","t",":","7","4","7","4","/">>
      [] c = BLOODHOUND_CONTAINER ->
        <<"S","e","r","v","e","r"," ","s","t","a","r","t","e","d"," ","s","u","c","c","e","s",
      "s","f","u","l","l","y">>
C19_Failures(c) ==
    CASE c = POSTGRES_CONTAINER ->
      {
      <<"F","A","T","A","L",":">>,
      <<"E","R","R","O","R",":">>,
      <<"c","o","u","l","d"," ","n","o","t">>}
      [] c = NEO4J_CONTAINER ->
      {
      <<"E","r","r","o","r">>}
      [] c = BLOODHOUND_CONTAINER ->
      {
      <<"\"","l","e","v","e","l","\"",":","\"","e","r","r","o","r","\"">>,
      <<"\"","l","e","v","e","l","\"",":","\"","f","a","t","a","l","\"">>,
      <<"E","r","r","o","r",":"," ">>}
\* the decision of the table on a text: success first, the markers taken
\* as they are, wherever they start in the text
C19_Table(c, text) ==
    IF Pos(C19_Success(c), text) # {} THEN "READY"
    ELSE IF \E p \in C19_Failures(c) : Pos(p, text) # {} THEN "FAILED"
    ELSE "WAITING"

\* C19: on every fetched text the detector of each manager decides as the
\* table of the specification does, by case-sensitive substring tests for
\* exactly its markers.
C19_MarkersAsInTable ==
    last.c \in Containers => det[last.c] = C19_Table(last.c, Stdout(last.text))

\* C19 witness: Postgres' detector failed on a text with "could not" after
\* a line with "fatal:" in lower case
C19_Witness ==
    /\ last.c = POSTGRES_CONTAINER /\ last.text = <<LinePgFatalLower, PgErrCould>>
    /\ det[POSTGRES_CONTAINER] = "FAILED"

\* the order of the stops
C20_Order == <<BLOODHOUND_CONTAINER, NEO4J_CONTAINER, POSTGRES_CONTAINER>>
\* a cleanup stands before position j of that order
C20_Before(j) == InCleanup("stop") /\ Top.i = j
\* the positions from j on whose container is on the started list
C20_Left(j) == {n \in j..3 : \E x \in 1..Len(started) : started[x] = C20_Order[n]}

\* C20: a cleanup that still has started containers to visit issues the
\* stop command of the first of them in the order BloodHound, Neo4j,
\* Postgres and nothing else; the container stays on the started list at
\* that step and goes off it at the next step if the command did not raise;
\* if it raised, the same cleanup goes on with the containers after it (and
\* then with the network).
C20_StopsInOrderAndGoOn ==
    [][\A j \in 1..3 :
        /\ (InCleanup("remove") /\ Top.i = j /\ sigs' = sigs) =>
             /\ <<"stop", C20_Order[j]>> \in issued
             /\ \E x \in 1..Len(started) : started[x] = C20_Order[j]
             /\ \A x \in 1..Len(started') : started'[x] # C20_Order[j]
             /\ stk' = Rest \o <<[Top EXCEPT !.pc = "stop", !.i = j + 1]>>
        /\ (C20_Before(j) /\ C20_Left(j) # {} /\ sigs' = sigs) =>
             LET n == CHOOSE n \in C20_Left(j) : \A o \in C20_Left(j) : n <= o
                 c == C20_Order[n]
             IN  /\ issued' = issued \cup {<<"stop", c>>}
                 /\ started' = started
                 /\ Len(stk') = Len(stk)
                 /\ stk'[Len(stk')].k = Top.k
                 /\ \/ stk'[Len(stk')].pc = "remove" /\ stk'[Len(stk')].i = n
                    \/ stk'[Len(stk')].pc = "stop" /\ stk'[Len(stk')].i = n + 1]_vars

\* C21: the --since value of every poll tick of a manager is the one value
\* its start() recorded when issuing the run command: one value for all its
\* ticks, not later than the start of the container and not earlier than
\* the manager's start step.
C21_SinceIsStartTime ==
    \A c \in Waited :
        since[c] # {} =>
            /\ since[c] = {timestamp[c]}
            /\ timestamp[c] <= startTime[c]
            /\ timestamp[c] >= startTime[c]

\* wait_for_ready of the manager of c is running
C22_Waiting(c) == At("run", SleepPc(c)) \/ At("run", FetchPc(c))
\* a poll tick of c, if one has just run, fetched with exit code 0 a text
\* with the ready pattern
C22_GoodTick(c) == last.c = c => (last.out = "zero" /\ HasReady(c, last.text))
\* a poll tick of c, if one has just run, fetched with exit code 0 a text
\* with neither the ready pattern nor a failure marker
C22_BlankTick(c) ==
    last.c = c => (last.out = "zero" /\ ~HasReady(c, last.text) /\ ~HasError(c, last.text))

\* C22: without a signal, if every fetch of a manager succeeds with a text
\* that has neither marker, its wait_for_ready, once begun, never ends; if
\* every fetch succeeds with the ready pattern in the text, a wait_for_ready
\* that has begun returns with the detector READY; and if that is so from
\* some point on only, the wait comes to an end.
C22_NoDeadlineButReturnsWhenReady ==
    \A c \in Waited :
        /\ ([]C22_BlankTick(c)) => [](C22_Waiting(c) => []C22_Waiting(c))
        /\ ([]C22_GoodTick(c)) =>
               [](C22_Waiting(c) => <>(det[c] = "READY" /\ ~C22_Waiting(c)))
        /\ (<>[]C22_GoodTick(c)) => <>[](~C22_Waiting(c))

\* C22 witness: BloodHound's wait returned on a text whose first line had
\* no marker, after Neo4j's wait had returned
C22_Witness ==
    /\ last.c = BLOODHOUND_CONTAINER /\ last.out = "zero"
    /\ last.text = <<LineStarting, BloodhoundReadyPattern>>
    /\ det[NEO4J_CONTAINER] = "READY" /\ det[BLOODHOUND_CONTAINER] = "READY"
    /\ At("run", "sql")

\* c is on the list of started containers
C23_OnList(c) == \E x \in 1..Len(started) : started[x] = c
\* a cleanup, running or interrupted, whose stop command for c has returned
\* and whose removal of c from the list has not run
C23_StopCompleted(c) ==
    \E n \in 1..Len(stk) :
        stk[n].k \in CleanupKinds /\ stk[n].pc = "remove" /\ StopOrder[stk[n].i] = c
\* the list holds container names only, each at most once, and only of
\* containers whose run command returned exit code 0
C23_ListOfStarted ==
    /\ \A x \in 1..Len(started) : started[x] \in Containers /\ started[x] \in startedOk
    /\ \A x, y \in 1..Len(started) : started[x] = started[y] => x = y

\* C23: the list of started containers holds only the three container
\* names, each at most once, and a name is on it only if its run command
\* returned exit code 0 and no stop command for it has returned since.
C23_StartedListInvariant ==
    /\ C23_ListOfStarted
    /\ \A c \in Containers : C23_OnList(c) => ~C23_StopCompleted(c)

\* the next step of the program is the rm command of the network
C24_NextIsNetRm == InCleanup("stop") /\ ToStop = {} /\ created_network
\* the next step of the program is the stop command of container c
C24_NextIsStop(c) == InCleanup("stop") /\ ToStop # {} /\ StopOrder[Min(ToStop)] = c

\* C24: no step of the program issues the rm command of the network when
\* it has been issued before, and none issues the stop command of a
\* container whose stop command has returned without raising.
C24_TeardownAtMostOnce ==
    [][sigs' = sigs =>
        /\ C24_NextIsNetRm => CmdNetRm \notin issued
        /\ \A c \in Containers : C24_NextIsStop(c) => ~C23_StopCompleted(c)]_vars

\* C25: no logs command is ever issued for the Postgres container, no poll
\* tick fetches its log or passes a --since value for it, and its detector
\* never leaves WAITING: whatever Postgres writes to its log, ready
\* pattern or failure marker, is read by no step of the run.
C25_PostgresNeverPolled ==
    /\ CmdLogs(POSTGRES_CONTAINER) \notin issued
    /\ last.c # POSTGRES_CONTAINER
    /\ since[POSTGRES_CONTAINER] = {}
    /\ det[POSTGRES_CONTAINER] = "WAITING"

\* C25 witness: the run commands of Neo4j and BloodHound and the SQL
\* statement have been issued, the other two managers have been polled to
\* READY, and Postgres, running, has not been polled
C25_Witness ==
    /\ {CmdRun(NEO4J_CONTAINER), CmdRun(BLOODHOUND_CONTAINER), CmdExec} \subseteq issued
    /\ {CmdLogs(NEO4J_CONTAINER), CmdLogs(BLOODHOUND_CONTAINER)} \subseteq issued
    /\ det[NEO4J_CONTAINER] = "READY" /\ det[BLOODHOUND_CONTAINER] = "READY"
    /\ POSTGRES_CONTAINER \in running
    /\ CmdLogs(POSTGRES_CONTAINER) \notin issued
    /\ det[POSTGRES_CONTAINER] = "WAITING"

====
